---- MODULE Spec2Model ----
(***************************************************************************)
(* State synchronisation core of the grid / Power Query editor.            *)
(*                                                                         *)
(*   - the legacy remote variant: the browser SessionManager               *)
(*     (src/script.js) talking over HTTP to the Express session store      *)
(*     (src/unnamed/part_002, the legacy app.js);                          *)
(*   - the session store on its own, under arbitrary API requests;         *)
(*   - the local-only variant: the React hook useSessionManager            *)
(*     (src/client/src/hooks/useSessionManager.ts) over localStorage.      *)
(*                                                                         *)
(* JavaScript values are modelled as tokens (strings): the booleans are    *)
(* "true" and "false", a state object is a function from its keys to       *)
(* tokens.  Session ids are integers: the well-formed (version-4) ids are  *)
(* the positive ones, 0 is null, negative ids are malformed strings.       *)
(* Time is counted in units of the store's maxAge (24 hours); two requests *)
(* handled within one unit read the same clock value.                      *)
(***************************************************************************)
EXTENDS Integers, Sequences, FiniteSets, Bags, TLC

\* ------------------------------------------------------------------ bounds
\* Fresh ids the server's uuidv4() hands out in one run.
MaxIds == 3
\* Network calls of the client in flight at the same time.
MaxInFlight == 2
\* The clock stops advancing here.
MaxTime == 2

\* -------------------------------------------------------- program constants
\* cleanupSessions' maxAge (24 h), in clock units.
MaxAge == 1

Null == 0
Ids == 1..MaxIds

EmptyMap == [k \in {} |-> ""]

\* { ...a, ...b }: object spread, b's keys win, one level deep.
Spread(a, b) == [k \in (DOMAIN a) \cup (DOMAIN b) |-> IF k \in DOMAIN b THEN b[k] ELSE a[k]]

\* ------------------------------------------------------------- server store
\* UserSession constructor: default uiState and workspaceData.
DefaultUiState == [activeTab |-> "grid", excelToggle |-> "false"]
DefaultWorkspaceData ==
    [gridData |-> <<>>, tableData |-> <<>>, pqQueryData |-> <<>>, uploads |-> <<>>]

UserSession_EpochActivity(id, t) ==
    [sessionId |-> id, createdAt |-> t, lastActivity |-> 0,
     uiState |-> DefaultUiState, workspaceData |-> DefaultWorkspaceData]

UserSession(id, t) ==
    [sessionId |-> id, createdAt |-> t, lastActivity |-> t,
     uiState |-> DefaultUiState, workspaceData |-> DefaultWorkspaceData]

updateLastActivity(s, t) == [s EXCEPT !.lastActivity = t]

updateUiState_Replaces(s, newUiState, t) ==
    updateLastActivity([s EXCEPT !.uiState = newUiState], t)

updateUiState(s, newUiState, t) ==
    updateLastActivity([s EXCEPT !.uiState = Spread(s.uiState, newUiState)], t)

updateWorkspaceData(s, newWorkspaceData, t) ==
    updateLastActivity(
        [s EXCEPT !.workspaceData = Spread(s.workspaceData, newWorkspaceData)], t)

resetSessionRecord(s, t) ==
    updateLastActivity(
        [s EXCEPT !.uiState = DefaultUiState, !.workspaceData = DefaultWorkspaceData], t)

\* The uuid regex: the well-formed ids are the positive integers.
validateSessionId(id) == id > 0

\* JavaScript truthiness of a token.
Truthy(v) == v \notin {"", "false", "null", "undefined", "0"}
IsBoolean(v) == v \in {"true", "false"}
ActiveTabs == {"grid", "table", "pq-query"}

\* A request body field is [t |-> its JavaScript type, f |-> its keys and values];
\* t is "undefined" for an absent field.
Undefined == [t |-> "undefined", f |-> EmptyMap]
Obj(fields) == [t |-> "object", f |-> fields]

\* typeof x === 'object' for a non-null x: objects and arrays.
IsObject(x) == x.t \in {"object", "array"}

validateUiState(uiState) ==
    /\ IsObject(uiState)
    /\ ~("activeTab" \in DOMAIN uiState.f
         /\ Truthy(uiState.f["activeTab"])
         /\ uiState.f["activeTab"] \notin ActiveTabs)
    /\ ~("excelToggle" \in DOMAIN uiState.f
         /\ uiState.f["excelToggle"] # "undefined"
         /\ ~IsBoolean(uiState.f["excelToggle"]))

\* A workspaceData value is a sequence of tokens; it stands for an array
\* (Array.isArray) unless its first element is the marker "#notarray".
IsArray(v) == v = <<>> \/ v[1] # "#notarray"
WorkspaceKeys == {"gridData", "tableData", "pqQueryData", "uploads"}

validateWorkspaceData(workspaceData) ==
    /\ IsObject(workspaceData)
    /\ \A key \in DOMAIN workspaceData.f : key \in WorkspaceKeys
    /\ \A key \in DOMAIN workspaceData.f : IsArray(workspaceData.f[key])

\* A handler's result: the store after it, the HTTP status, and the session
\* it returns (toJSON), or NoSession.
NoSession == [sessionId |-> Null, createdAt |-> 0, lastActivity |-> 0,
              uiState |-> EmptyMap, workspaceData |-> EmptyMap]
Result(S, status, session) == [sessions |-> S, status |-> status, session |-> session]

\* POST /api/session/init
PostInit(S, id, t) ==
    LET newSession == UserSession(id, t)
    IN  Result([k \in (DOMAIN S) \cup {id} |-> IF k = id THEN newSession ELSE S[k]],
               201, newSession)

GetSession_Recreates(S, id, t) ==
    IF ~validateSessionId(id) THEN Result(S, 400, NoSession)
    ELSE LET s == IF id \in DOMAIN S THEN updateLastActivity(S[id], t) ELSE UserSession(id, t)
         IN  Result([k \in (DOMAIN S) \cup {id} |-> IF k = id THEN s ELSE S[k]], 200, s)

\* GET /api/session/:sessionId
GetSession(S, id, t) ==
    IF ~validateSessionId(id) THEN Result(S, 400, NoSession)
    ELSE IF id \notin DOMAIN S THEN Result(S, 404, NoSession)
    ELSE LET s == updateLastActivity(S[id], t)
         IN  Result([S EXCEPT ![id] = s], 200, s)

\* The uiState part of PUT /api/session/:sessionId/state: the record after it
\* and whether the handler goes on.
PutUiState(s, uiState, t) ==
    IF uiState.t = "undefined" THEN [s |-> s, ok |-> TRUE]
    ELSE IF ~validateUiState(uiState) THEN [s |-> s, ok |-> FALSE]
    ELSE [s |-> updateUiState(s, uiState.f, t), ok |-> TRUE]

PutWorkspaceData(s, workspaceData, t) ==
    IF workspaceData.t = "undefined" THEN [s |-> s, ok |-> TRUE]
    ELSE IF ~validateWorkspaceData(workspaceData) THEN [s |-> s, ok |-> FALSE]
    ELSE [s |-> updateWorkspaceData(s, workspaceData.f, t), ok |-> TRUE]

PutState_SharedUiState(S, id, uiState, workspaceData, t) ==
    IF ~validateSessionId(id) THEN Result(S, 400, NoSession)
    ELSE IF id \notin DOMAIN S THEN Result(S, 404, NoSession)
    ELSE LET u == PutUiState(S[id], uiState, t)
             w == PutWorkspaceData(u.s, workspaceData, t)
         IN  IF ~u.ok THEN Result(S, 400, NoSession)
             ELSE IF ~w.ok THEN Result([S EXCEPT ![id] = u.s], 400, NoSession)
             ELSE Result([k \in DOMAIN S |-> IF k = id THEN w.s
                                              ELSE [S[k] EXCEPT !.uiState = w.s.uiState]],
                         200, w.s)

\* PUT /api/session/:sessionId/state
PutState(S, id, uiState, workspaceData, t) ==
    IF ~validateSessionId(id) THEN Result(S, 400, NoSession)
    ELSE IF id \notin DOMAIN S THEN Result(S, 404, NoSession)
    ELSE LET u == PutUiState(S[id], uiState, t)
             w == PutWorkspaceData(u.s, workspaceData, t)
         IN  IF ~u.ok THEN Result(S, 400, NoSession)
             ELSE IF ~w.ok THEN Result([S EXCEPT ![id] = u.s], 400, NoSession)
             ELSE Result([S EXCEPT ![id] = w.s], 200, w.s)

\* DELETE /api/session/:sessionId/reset
DeleteReset(S, id, t) ==
    IF ~validateSessionId(id) THEN Result(S, 400, NoSession)
    ELSE IF id \notin DOMAIN S THEN Result(S, 404, NoSession)
    ELSE LET s == resetSessionRecord(S[id], t)
         IN  Result([S EXCEPT ![id] = s], 200, s)

\* The file part of an upload request, as multer's upload.single('file') sees
\* it: no file, a CSV or Excel file within the size limit, a file over the
\* limit (LIMIT_FILE_SIZE), or a file of a type the fileFilter refuses.
Files == {"none", "sheet", "oversized", "othertype"}

\* POST /api/session/:sessionId/upload: multer and the error middleware in
\* front of the handler, then the handler.
PostUpload(S, id, file, t) ==
    IF file = "oversized" THEN Result(S, 400, NoSession)
    ELSE IF file = "othertype" THEN Result(S, 500, NoSession)
    ELSE IF ~validateSessionId(id) THEN Result(S, 400, NoSession)
    ELSE IF id \notin DOMAIN S THEN Result(S, 404, NoSession)
    ELSE IF file = "none" THEN Result(S, 400, NoSession)
    ELSE LET s == updateLastActivity(
                      [S[id] EXCEPT !.workspaceData.uploads = Append(@, file)], t)
         IN  Result([S EXCEPT ![id] = s], 200, NoSession)

\* cleanupSessions: the store without the records idle for more than maxAge.
cleanupSessions_AtLeastMaxAge(S, t) ==
    LET keep == {id \in DOMAIN S : ~(t - S[id].lastActivity >= MaxAge)}
    IN  [id \in keep |-> S[id]]

cleanupSessions(S, t) ==
    LET keep == {id \in DOMAIN S : ~(t - S[id].lastActivity > MaxAge)}
    IN  [id \in keep |-> S[id]]

\* ------------------------------------------------- client: SessionManager
VARIABLES
    \* server
    sessions,        \* the sessions Map: id -> record
    nextId,          \* the next id uuidv4() returns
    now,             \* the server's clock
    resp,            \* the response to the last direct API request
    \* client
    started,         \* DOMContentLoaded has fired
    sessionId,       \* this.sessionId
    remembered,      \* sessionStorage 'sessionId'
    isInitialized,   \* this.isInitialized
    state,           \* this.state
    syncHandle,      \* this.syncTimeout: "null", "live" (its timer is pending) or "stale"
    syncTimers,      \* pending debounce timers
    intervalHandle,  \* this.validationInterval: "null", "live" or "stale"
    intervals,       \* active validation intervals
    net,             \* the client's network calls in flight, a bag of messages
    \* local-only variant: the useSessionManager hook
    mounted,         \* the mount effect has run
    hookState,       \* useState: state
    isLoading,       \* useState: isLoading
    error,           \* useState: error, "null" or "set"
    stored,          \* localStorage's item under 'user_session_state'
    freshIds,        \* session ids resetSession has generated
    \* the React grid tab
    gridMounted,     \* GridTab is rendered and its mount effect has run
    gridData,        \* useState: gridData
    currentRows,     \* useState: currentRows
    currentCols,     \* useState: currentCols
    rowCount,        \* useState: rowCount, the value of the Rows input
    colCount,        \* useState: colCount, the value of the Columns input
    stateGridData,   \* the hook's state.gridData: <<>> when undefined, else <<the object>>
    \* the React sidebar
    stateUploads,    \* the hook's state.uploads
    uploadedFile,    \* useState: uploadedFile, <<>> when null, else <<the file>>
    \* history
    last,            \* the last step taken
    burst,           \* the debounced burst under way
    reboots,         \* re-bootstraps started, per invalidated session id
    cleanedUp        \* cleanup() has been called

serverVars == <<sessions, nextId, now, resp>>
clientVars == <<started, sessionId, remembered, isInitialized, state,
                syncHandle, syncTimers, intervalHandle, intervals>>
hookVars == <<mounted, hookState, isLoading, error, stored, freshIds>>
gridVars == <<gridMounted, gridData, currentRows, currentCols, rowCount, colCount,
              stateGridData>>
historyVars == <<last, burst, reboots, cleanedUp>>
sidebarVars == <<stateUploads, uploadedFile>>
vars == <<serverVars, clientVars, net, hookVars, gridVars, sidebarVars, historyVars>>

\* The constructor's this.state.  sidebarCollapsed stands for the keys the
\* server's default uiState does not have (sidebarCollapsed, fileConfigs,
\* docProps, pqQuery, gridView).
ConstructorState ==
    [activeTab |-> "grid", excelToggle |-> "false", sidebarCollapsed |-> "false"]

\* The partial states the UI writes.
Patches == {[activeTab |-> "table"], [activeTab |-> "grid"], [sidebarCollapsed |-> "true"]}

\* A network call of the client.  phase "req": on its way to the server;
\* "resp": answered, on its way back.  sid is the id in the URL (for create:
\* null in the request, the new id in the response), from is this.sessionId
\* when the call was issued, ui is the PUT body's uiState in a request and
\* session.uiState in a response the client reads it from.
Msg(kind, phase, sid, from, ok, ui) ==
    [kind |-> kind, phase |-> phase, sid |-> sid, from |-> from, ok |-> ok, ui |-> ui]
Request(kind, sid, from, ui) == Msg(kind, "req", sid, from, FALSE, ui)

\* The bootstrap requests (get of a remembered id, create) in a bag of calls.
Bootstraps(b) ==
    BagCardinality([m \in {x \in BagToSet(b) : x.kind \in {"create", "resume"} /\ x.phase = "req"}
                    |-> b[m]])

InFlight == BagCardinality(net)
Send(m) == net (+) SetToBag({m})
Take(m) == net (-) SetToBag({m})
Replace(m, n) == (net (-) SetToBag({m})) (+) SetToBag({n})

\* The burst of writes that scheduled the pending debounce timer: writes is 1
\* for a single write and 2 for more, written is the state after the burst's
\* last write, replaced says that something other than a write of the burst
\* has assigned this.state since, pushes counts the PUTs sent for the burst.
\* When the burst's last timer fires, held says that a session id was held
\* and intact that the state read for the body was written.
NoBurst == [writes |-> 0, written |-> EmptyMap, replaced |-> FALSE,
            pushes |-> 0, held |-> FALSE, intact |-> FALSE]
Replaced == IF burst.writes > 0 THEN [burst EXCEPT !.replaced = TRUE] ELSE burst

\* The last step: the operation, the session id it is about, its outcome, its
\* argument and, for the firing of a burst's last timer, the burst it ends.
Step(op, sid, out, arg) ==
    [op |-> op, sid |-> sid, out |-> out, arg |-> arg, burst |-> NoBurst]

\* ---------------------------------------------- local-only variant: values
\* The hook's defaultState; its sessionId is generated when the module loads.
\* sidebarCollapsed stands for the keys other than sessionId, activeTab and
\* uploads; uploads is "[]", or "[File]" for an array holding a File object.
defaultState ==
    [sessionId |-> "local_0", activeTab |-> "grid", sidebarCollapsed |-> "false",
     uploads |-> "[]"]

\* `local_${Date.now()}_${Math.random()...}`: the n-th id generated after that.
LocalId(n) == "local_" \o ToString(n)

\* A localStorage item: absent (getItem returns null), or a string, which is
\* the JSON text of an object v or no JSON at all.
NoItem == [kind |-> "none", v |-> EmptyMap]
CorruptItem == [kind |-> "corrupt", v |-> EmptyMap]

\* JSON.stringify of a value: a File has no enumerable property of its own and
\* becomes {}.
StringifyValue(v) == IF v = "[File]" THEN "[{}]" ELSE v

\* JSON.stringify(o): the keys whose value is undefined are left out.
Stringify(o) ==
    [kind |-> "json",
     v |-> [k \in {x \in DOMAIN o : o[x] # "undefined"} |-> StringifyValue(o[k])]]

\* JSON.parse(item): the object, or a SyntaxError.
Parses(item) == item.kind = "json"
Parse(item) == item.v

\* ------------------------------------------------------------------- Init
PriorUiState == [activeTab |-> "table", excelToggle |-> "false", sidebarCollapsed |-> "true"]

\* The SessionManager after its constructor, the server's clock at 0, no
\* history.
Constructed ==
    /\ now = 0
    /\ resp = 0
    /\ started = FALSE
    /\ sessionId = Null
    /\ isInitialized = FALSE
    /\ state = ConstructorState
    /\ syncHandle = "null"
    /\ syncTimers = 0
    /\ intervalHandle = "null"
    /\ intervals = 0
    /\ net = EmptyBag
    /\ last = Step("new", Null, "-", EmptyMap)
    /\ burst = NoBurst
    /\ reboots = [id \in Ids |-> 0]
    /\ cleanedUp = FALSE

\* useSessionManager before its first render's effect, over a given item.
Rendered(item) ==
    /\ mounted = FALSE
    /\ hookState = defaultState
    /\ isLoading = TRUE
    /\ error = "null"
    /\ stored = item
    /\ freshIds = 0

\* defaultState.gridData: 3x3 of '', rows 3, cols 3.
defaultGridData ==
    [data |-> [i \in 1..3 |-> [j \in 1..3 |-> ""]], rows |-> 3, cols |-> 3]

\* GridTab not rendered, its useState values the initial ones, over a given
\* state.gridData.
GridTabClosed(held) ==
    /\ gridMounted = FALSE
    /\ gridData = <<>>
    /\ currentRows = 3
    /\ currentCols = 3
    /\ rowCount = 3
    /\ colCount = 3
    /\ stateGridData = held

\* The sidebar over defaultState.uploads, no file shown as uploaded.
SidebarRendered ==
    /\ stateUploads = <<>>
    /\ uploadedFile = <<>>

\* A page load: a first visit, or a reload in a tab that remembers session 1,
\* which the server still holds or has lost.
Init ==
    /\ \/ remembered = Null /\ sessions = EmptyMap /\ nextId = 1
       \/ /\ remembered = 1
          /\ sessions = [id \in {1} |-> [UserSession(1, 0) EXCEPT !.uiState = PriorUiState]]
          /\ nextId = 2
       \/ remembered = 1 /\ sessions = EmptyMap /\ nextId = 2
    /\ Constructed
    /\ Rendered(NoItem)
    /\ GridTabClosed(<<defaultGridData>>)
    /\ SidebarRendered

\* ------------------------------------------------------------ client steps
\* clearTimeout / clearInterval of a handle: only a live handle stops a timer.
ClearTimer(handle, timers) == IF handle = "live" THEN timers - 1 ELSE timers

\* A startPeriodicSync that sets its interval without clearing the one held.
startPeriodicSync_NoClear ==
    /\ intervals' = intervals + 1
    /\ intervalHandle' = "live"

\* startPeriodicSync: clear the interval held, then set a new one.
startPeriodicSync ==
    /\ intervals' = ClearTimer(intervalHandle, intervals) + 1
    /\ intervalHandle' = "live"

\* A debounce that sets its timer without clearing the one held.
debouncedSync_NoClear ==
    /\ syncTimers' = syncTimers + 1
    /\ syncHandle' = "live"

\* debounce(syncToServer, 500)'s closure: clear the timer held, set a new one.
debouncedSync ==
    /\ syncTimers' = ClearTimer(syncHandle, syncTimers) + 1
    /\ syncHandle' = "live"

\* init(), up to its first await: resume the remembered id, else create.
InitRequest(existingSessionId, from) ==
    IF existingSessionId # Null
    THEN Request("resume", existingSessionId, from, EmptyMap)
    ELSE Request("create", Null, from, EmptyMap)

\* The DOMContentLoaded handler calls sessionManager.init().
DOMContentLoaded ==
    /\ ~started
    /\ started' = TRUE
    /\ net' = Send(InitRequest(remembered, sessionId))
    /\ UNCHANGED <<serverVars, sessionId, remembered, isInitialized, state,
                   syncHandle, syncTimers, intervalHandle, intervals>>

\* getState()
getState == state

\* An updateState whose spread lets the current values win over the patch.
updateState_PatchLoses(newState) ==
    /\ state' = Spread(newState, state)
    /\ IF isInitialized
       THEN debouncedSync
       ELSE UNCHANGED <<syncHandle, syncTimers>>
    /\ UNCHANGED <<serverVars, started, sessionId, remembered, isInitialized,
                   intervalHandle, intervals, net>>

\* An updateState that merges and never schedules the push.
updateState_NoSchedule(newState) ==
    /\ state' = Spread(state, newState)
    /\ UNCHANGED <<serverVars, started, sessionId, remembered, isInitialized,
                   syncHandle, syncTimers, intervalHandle, intervals, net>>

\* updateState(newState)
updateState(newState) ==
    /\ state' = Spread(state, newState)
    /\ IF isInitialized
       THEN debouncedSync
       ELSE UNCHANGED <<syncHandle, syncTimers>>
    /\ UNCHANGED <<serverVars, started, sessionId, remembered, isInitialized,
                   intervalHandle, intervals, net>>

\* The debounce timer fires: syncToServer(), up to its await.
syncToServer ==
    /\ syncTimers > 0
    /\ sessionId # Null => InFlight < MaxInFlight
    /\ syncTimers' = syncTimers - 1
    /\ syncHandle' = IF syncTimers = 1 /\ syncHandle = "live" THEN "stale" ELSE syncHandle
    /\ net' = IF sessionId = Null THEN net
              ELSE Send(Request("put", sessionId, sessionId, state))
    /\ UNCHANGED <<serverVars, started, sessionId, remembered, isInitialized, state,
                   intervalHandle, intervals>>

\* A validation interval fires: the callback, up to its await.
PollTick ==
    /\ intervals > 0
    /\ sessionId # Null
    /\ InFlight < MaxInFlight
    /\ net' = Send(Request("poll", sessionId, sessionId, EmptyMap))
    /\ UNCHANGED <<serverVars, clientVars>>

\* resetSession(), up to its await.
resetSession ==
    /\ sessionId # Null => InFlight < MaxInFlight
    /\ net' = IF sessionId = Null THEN net
              ELSE Send(Request("reset", sessionId, sessionId, EmptyMap))
    /\ UNCHANGED <<serverVars, clientVars>>

\* A click on the reset button that calls resetSession whatever confirm says.
resetUserSession_IgnoresAnswer(confirmed) == resetSession

\* resetUserSession(): the click handler of the reset button, up to the await
\* in resetSession; confirmed is what confirm() returns.
resetUserSession(confirmed) ==
    IF confirmed THEN resetSession ELSE UNCHANGED <<serverVars, clientVars, net>>

\* cleanup(), called by the beforeunload listener that DOMContentLoaded
\* registers: clear the debounce timer and the validation interval held.
cleanup ==
    /\ started
    /\ syncTimers' = ClearTimer(syncHandle, syncTimers)
    /\ syncHandle' = IF syncHandle = "live" THEN "stale" ELSE syncHandle
    /\ intervals' = ClearTimer(intervalHandle, intervals)
    /\ intervalHandle' = IF intervalHandle = "live" THEN "stale" ELSE intervalHandle
    /\ UNCHANGED <<serverVars, started, sessionId, remembered, isInitialized, state, net>>

\* What the client's fetch of call m can settle to now: the server's answer
\* once there is one ("ok": success true, "rejected": success false), or a
\* network failure at any moment.
Answer(m) == IF m.ok THEN "ok" ELSE "rejected"
Outcomes(m) == IF m.phase = "resp" THEN {Answer(m), "neterr"} ELSE {"neterr"}

\* A createNewSession that does not store the new id in sessionStorage.
CreateSettles_NotRemembered(m, out) ==
    /\ m.kind = "create"
    /\ IF out = "ok"
       THEN /\ sessionId' = m.sid
            /\ state' = m.ui
            /\ isInitialized' = TRUE
            /\ startPeriodicSync
            /\ UNCHANGED remembered
       ELSE UNCHANGED <<sessionId, remembered, state, isInitialized,
                        intervalHandle, intervals>>
    /\ net' = Take(m)
    /\ UNCHANGED <<serverVars, started, syncHandle, syncTimers>>

\* createNewSession() after its await, and init() after it.
CreateSettles(m, out) ==
    /\ m.kind = "create"
    /\ IF out = "ok"
       THEN /\ sessionId' = m.sid
            /\ remembered' = m.sid
            /\ state' = m.ui
            /\ isInitialized' = TRUE
            /\ startPeriodicSync
       ELSE UNCHANGED <<sessionId, remembered, state, isInitialized,
                        intervalHandle, intervals>>
    /\ net' = Take(m)
    /\ UNCHANGED <<serverVars, started, syncHandle, syncTimers>>

\* A loadExistingSession that takes the session id and not the fetched state.
ResumeSettles_KeepsState(m, out) ==
    /\ m.kind = "resume"
    /\ IF out = "ok"
       THEN /\ sessionId' = m.sid
            /\ isInitialized' = TRUE
            /\ startPeriodicSync
            /\ net' = Take(m)
            /\ UNCHANGED <<remembered, state>>
       ELSE /\ remembered' = Null
            /\ net' = Replace(m, Request("create", Null, sessionId, EmptyMap))
            /\ UNCHANGED <<sessionId, state, isInitialized, intervalHandle, intervals>>
    /\ UNCHANGED <<serverVars, started, syncHandle, syncTimers>>

\* loadExistingSession(sessionId) after its await, and init() after it.
ResumeSettles(m, out) ==
    /\ m.kind = "resume"
    /\ IF out = "ok"
       THEN /\ sessionId' = m.sid
            /\ state' = m.ui
            /\ isInitialized' = TRUE
            /\ startPeriodicSync
            /\ net' = Take(m)
            /\ UNCHANGED remembered
       ELSE /\ remembered' = Null
            /\ net' = Replace(m, Request("create", Null, sessionId, EmptyMap))
            /\ UNCHANGED <<sessionId, state, isInitialized, intervalHandle, intervals>>
    /\ UNCHANGED <<serverVars, started, syncHandle, syncTimers>>

\* An interval callback that forgets the session and does not call init().
PollSettles_NoInit(m, out) ==
    /\ m.kind = "poll"
    /\ IF out = "rejected"
       THEN /\ remembered' = Null
            /\ sessionId' = Null
            /\ isInitialized' = FALSE
            /\ intervals' = ClearTimer(intervalHandle, intervals)
            /\ intervalHandle' = IF intervalHandle = "live" THEN "stale" ELSE intervalHandle
       ELSE UNCHANGED <<remembered, sessionId, isInitialized, intervalHandle, intervals>>
    /\ net' = Take(m)
    /\ UNCHANGED <<serverVars, started, state, syncHandle, syncTimers>>

\* An interval callback that treats a network failure like a rejection.
PollSettles_AnyFailure(m, out) ==
    /\ m.kind = "poll"
    /\ IF out # "ok"
       THEN /\ remembered' = Null
            /\ sessionId' = Null
            /\ isInitialized' = FALSE
            /\ intervals' = ClearTimer(intervalHandle, intervals)
            /\ intervalHandle' = IF intervalHandle = "live" THEN "stale" ELSE intervalHandle
            /\ net' = Replace(m, InitRequest(Null, Null))
       ELSE /\ net' = Take(m)
            /\ UNCHANGED <<remembered, sessionId, isInitialized, intervalHandle, intervals>>
    /\ UNCHANGED <<serverVars, started, state, syncHandle, syncTimers>>

\* The interval callback after its await.
PollSettles(m, out) ==
    /\ m.kind = "poll"
    /\ IF out = "rejected"
       THEN /\ remembered' = Null
            /\ sessionId' = Null
            /\ isInitialized' = FALSE
            /\ intervals' = ClearTimer(intervalHandle, intervals)
            /\ intervalHandle' = IF intervalHandle = "live" THEN "stale" ELSE intervalHandle
            /\ net' = Replace(m, InitRequest(Null, Null))
       ELSE /\ net' = Take(m)
            /\ UNCHANGED <<remembered, sessionId, isInitialized, intervalHandle, intervals>>
    /\ UNCHANGED <<serverVars, started, state, syncHandle, syncTimers>>

\* A syncToServer that gives the session up when its push fails.
PutSettles_DropsSession(m, out) ==
    /\ m.kind = "put"
    /\ net' = Take(m)
    /\ IF out = "ok"
       THEN UNCHANGED <<sessionId, isInitialized>>
       ELSE sessionId' = Null /\ isInitialized' = FALSE
    /\ UNCHANGED <<serverVars, started, remembered, state,
                   syncHandle, syncTimers, intervalHandle, intervals>>

\* syncToServer() after its await: the outcome is logged.
PutSettles(m, out) ==
    /\ m.kind = "put"
    /\ net' = Take(m)
    /\ UNCHANGED <<serverVars, clientVars>>

\* A resetSession that merges the returned defaults into the local state.
ResetSettles_Merges(m, out) ==
    /\ m.kind = "reset"
    /\ IF out = "ok" THEN state' = Spread(state, m.ui) ELSE UNCHANGED state
    /\ net' = Take(m)
    /\ UNCHANGED <<serverVars, started, sessionId, remembered, isInitialized,
                   syncHandle, syncTimers, intervalHandle, intervals>>

\* resetSession() after its await.
ResetSettles(m, out) ==
    /\ m.kind = "reset"
    /\ IF out = "ok" THEN state' = m.ui ELSE UNCHANGED state
    /\ net' = Take(m)
    /\ UNCHANGED <<serverVars, started, sessionId, remembered, isInitialized,
                   syncHandle, syncTimers, intervalHandle, intervals>>

\* ------------------------------------------------------------ server steps
\* The handler of the route call m addresses.
Handle(m) ==
    CASE m.kind = "create" -> PostInit(sessions, nextId, now)
      [] m.kind \in {"resume", "poll"} -> GetSession(sessions, m.sid, now)
      [] m.kind = "put" -> PutState(sessions, m.sid, Obj(m.ui), Undefined, now)
      [] m.kind = "reset" -> DeleteReset(sessions, m.sid, now)

\* Express handles one request of the client and answers it.
ServerHandles(m) ==
    /\ m.phase = "req"
    /\ m.kind = "create" => nextId <= MaxIds
    /\ LET r == Handle(m)
           ok == r.status \in {200, 201}
       IN  /\ sessions' = r.sessions
           /\ net' = Replace(m, Msg(m.kind, "resp",
                                    IF m.kind = "create" THEN r.session.sessionId ELSE m.sid,
                                    m.from, ok,
                                    IF ok /\ m.kind \in {"create", "resume", "reset"}
                                    THEN r.session.uiState ELSE EmptyMap))
    /\ nextId' = IF m.kind = "create" THEN nextId + 1 ELSE nextId
    /\ UNCHANGED <<now, resp, clientVars>>

\* The hourly setInterval(cleanupSessions), when it finds something to remove.
Sweep ==
    /\ sessions' = cleanupSessions(sessions, now)
    /\ sessions' # sessions
    /\ UNCHANGED <<nextId, now, resp>>

\* Time passes.
Tick ==
    /\ now < MaxTime
    /\ now' = now + 1
    /\ UNCHANGED <<sessions, nextId, resp>>

Messages == BagToSet(net)

\* ------------------------------------------------------- history of a run
\* The step taken is recorded in last.
Did(op, sid, out, arg) == last' = Step(op, sid, out, arg)
Wrote(newState) ==
    /\ Did("updateState", Null, IF isInitialized THEN "active" ELSE "inactive", newState)
    /\ burst' = IF isInitialized
                THEN [NoBurst EXCEPT !.written = state',
                                     !.writes = IF burst.writes > 0 THEN 2 ELSE 1]
                ELSE Replaced
    /\ UNCHANGED reboots
Fired ==
    LET fired == [burst EXCEPT !.written = EmptyMap,
                               !.pushes = IF sessionId = Null THEN @ ELSE @ + 1,
                               !.held = sessionId # Null,
                               !.intact = state = burst.written]
    IN  /\ burst' = IF syncTimers' = 0 THEN NoBurst
                    ELSE [burst EXCEPT !.pushes = fired.pushes]
        /\ last' = [Step("syncToServer", Null, IF sessionId = Null THEN "none" ELSE "sent",
                         EmptyMap)
                    EXCEPT !.burst = IF syncTimers' = 0 THEN fired ELSE NoBurst]
        /\ UNCHANGED reboots
\* The kinds of call the client makes.
SettleOps == {"create", "resume", "poll", "put", "reset"}

\* A re-bootstrap that a settled poll started is counted.
Rebooted(m) ==
    reboots' = IF m.kind = "poll" /\ Bootstraps(net') > Bootstraps(net)
               THEN [reboots EXCEPT ![m.sid] = @ + 1] ELSE reboots

Settled(m, out) ==
    /\ Did(m.kind, m.from, out, EmptyMap)
    /\ burst' = IF state' # state \/ (out = "ok" /\ m.kind \in {"create", "resume", "reset"})
                THEN Replaced ELSE burst
    /\ Rebooted(m)

\* The remote variant: the browser, the network and the server.
RemoteNext ==
    \/ DOMContentLoaded /\ Did("init", Null, "-", EmptyMap) /\ UNCHANGED <<burst, reboots>>
    \/ \E newState \in Patches : updateState(newState) /\ Wrote(newState)
    \/ syncToServer /\ Fired
    \/ PollTick /\ Did("pollTick", Null, "-", EmptyMap) /\ UNCHANGED <<burst, reboots>>
    \/ \E confirmed \in BOOLEAN :
          /\ resetUserSession(confirmed)
          /\ IF confirmed
             THEN Did("resetSession", Null, IF sessionId = Null THEN "refused" ELSE "sent",
                      EmptyMap)
             ELSE Did("resetUserSession", Null, "declined", EmptyMap)
          /\ UNCHANGED <<burst, reboots>>
    \/ \E m \in Messages : \E out \in Outcomes(m) : CreateSettles(m, out) /\ Settled(m, out)
    \/ \E m \in Messages : \E out \in Outcomes(m) : ResumeSettles(m, out) /\ Settled(m, out)
    \/ \E m \in Messages : \E out \in Outcomes(m) : PollSettles(m, out) /\ Settled(m, out)
    \/ \E m \in Messages : \E out \in Outcomes(m) : PutSettles(m, out) /\ Settled(m, out)
    \/ \E m \in Messages : \E out \in Outcomes(m) : ResetSettles(m, out) /\ Settled(m, out)
    \/ /\ \E m \in Messages : ServerHandles(m) /\ Did("server", Null, m.kind, EmptyMap)
       /\ UNCHANGED <<burst, reboots>>
    \/ /\ Sweep
       /\ Did("sweep", Null, "-", EmptyMap)
       /\ UNCHANGED <<clientVars, net, burst, reboots>>
    \/ /\ Tick
       /\ Did("tick", Null, "-", EmptyMap)
       /\ UNCHANGED <<clientVars, net, burst, reboots>>

Next == RemoteNext /\ UNCHANGED <<hookVars, gridVars, sidebarVars, cleanedUp>>

Spec == Init /\ [][Next]_vars

\* ------------------------------------------- the session store on its own
\* Sessions created in a run of the store on its own.
MaxStoreIds == 2
\* Files uploaded to one session between two resets.
MaxUploads == 1

\* The :sessionId of a request: a well-formed id, or a malformed one.
RequestIds == Ids \cup {-1}

\* The uiState and workspaceData fields of a PUT body.
UiBodies ==
    {Undefined, Obj([activeTab |-> "table"]), Obj([activeTab |-> "bogus"]),
     Obj([excelToggle |-> "yes"]), [t |-> "string", f |-> EmptyMap]}
WorkspaceBodies ==
    {Undefined, Obj([gridData |-> <<"row">>]), Obj([gridData |-> <<"#notarray">>]),
     Obj([bogus |-> <<>>])}

\* The store handles a request and answers it with r.
Answers(route, id, r) ==
    /\ sessions' = r.sessions
    /\ resp' = r.status
    /\ Did(route, id, "-", EmptyMap)
    /\ UNCHANGED now

ApiInit ==
    /\ nextId <= MaxStoreIds
    /\ Answers("POST init", nextId, PostInit(sessions, nextId, now))
    /\ nextId' = nextId + 1

ApiGet(id) ==
    /\ Answers("GET", id, GetSession(sessions, id, now))
    /\ UNCHANGED nextId

ApiPut(id, uiState, workspaceData) ==
    /\ Answers("PUT state", id, PutState(sessions, id, uiState, workspaceData, now))
    /\ UNCHANGED nextId

\* The history keeps the timestamps the record had before the reset.
ApiReset(id) ==
    /\ LET r == DeleteReset(sessions, id, now)
       IN  /\ sessions' = r.sessions
           /\ resp' = r.status
    /\ Did("DELETE reset", id, "-",
           IF id \in DOMAIN sessions
           THEN [createdAt |-> sessions[id].createdAt, lastActivity |-> sessions[id].lastActivity]
           ELSE EmptyMap)
    /\ UNCHANGED <<now, nextId>>

ApiUpload(id, file) ==
    /\ (id \in DOMAIN sessions /\ file = "sheet")
          => Len(sessions[id].workspaceData.uploads) < MaxUploads
    /\ LET r == PostUpload(sessions, id, file, now)
       IN  /\ sessions' = r.sessions
           /\ resp' = r.status
    /\ Did("POST upload", id, file, EmptyMap)
    /\ UNCHANGED <<now, nextId>>

\* The routes addressed by a session id.
IdRoutes == {"GET", "PUT state", "DELETE reset", "POST upload"}

NextServer ==
    /\ UNCHANGED <<clientVars, net, hookVars, gridVars, sidebarVars, burst, reboots, cleanedUp>>
    /\ \/ ApiInit
       \/ \E id \in RequestIds : ApiGet(id)
       \/ \E id \in RequestIds : \E uiState \in UiBodies : \E workspaceData \in WorkspaceBodies :
              ApiPut(id, uiState, workspaceData)
       \/ \E id \in RequestIds : ApiReset(id)
       \/ \E id \in RequestIds : \E file \in Files : ApiUpload(id, file)
       \/ Sweep /\ Did("sweep", Null, "-", EmptyMap)
       \/ Tick /\ Did("tick", Null, "-", EmptyMap)

SpecServer == Init /\ [][NextServer]_vars

\* --------------------------------------- the store's validation of PUT bodies
\* uiState fields that validateUiState has to judge: the ones above, a falsy
\* activeTab and a key the session's uiState never has.
ShapedUiBodies == UiBodies \cup {Obj([activeTab |-> ""]), Obj([bogus |-> "x"])}

NextShapes ==
    /\ UNCHANGED <<clientVars, net, hookVars, gridVars, sidebarVars, burst, reboots, cleanedUp>>
    /\ \/ ApiInit
       \/ \E id \in RequestIds : ApiGet(id)
       \/ \E id \in RequestIds : \E uiState \in ShapedUiBodies :
              \E workspaceData \in WorkspaceBodies : ApiPut(id, uiState, workspaceData)
       \/ \E id \in RequestIds : ApiReset(id)
       \/ Sweep /\ Did("sweep", Null, "-", EmptyMap)
       \/ Tick /\ Did("tick", Null, "-", EmptyMap)

SpecShapes == Init /\ [][NextShapes]_vars

\* ------------------------------------ local-only variant: useSessionManager
\* Resets in one run: resetSession generates a new session id each time.
MaxResets == 2

\* What the user's earlier visit left in localStorage.
PriorLocalState ==
    [sessionId |-> "local_prior", activeTab |-> "table", sidebarCollapsed |-> "true",
     uploads |-> "[]"]

\* The updates the UI passes to updateState; an optional key may be undefined.
LocalPatches ==
    {[activeTab |-> "table"], [activeTab |-> "grid"],
     [sidebarCollapsed |-> "true"], [sidebarCollapsed |-> "undefined"],
     [uploads |-> "[File]"]}

\* localStorage.setItem(key, text): it stores the text, or throws (quota
\* exceeded, storage disabled) and stores nothing.
setItem(text, works) == IF works THEN text ELSE stored

\* The mount effect: initializeSession().  gets, sets: whether getItem and the
\* one setItem this run reaches work.
initializeSession(gets, sets) ==
    /\ ~mounted
    /\ mounted' = TRUE
    /\ isLoading' = FALSE
    /\ IF gets /\ stored.kind # "none" /\ Parses(stored)
       THEN /\ hookState' = Parse(stored)
            /\ error' = "null"
            /\ UNCHANGED stored
       ELSE /\ hookState' = defaultState
            /\ stored' = setItem(Stringify(defaultState), sets)
            /\ error' = IF gets /\ stored.kind = "none" /\ sets THEN "null" ELSE "set"
    /\ UNCHANGED freshIds

\* An updateState whose failed write leaves the key without an item.
updateStateLocal_LosesItem(updates, sets) ==
    /\ mounted
    /\ LET newState == Spread(hookState, updates)
       IN  /\ hookState' = newState
           /\ stored' = IF sets THEN Stringify(newState) ELSE NoItem
    /\ error' = IF sets THEN error ELSE "set"
    /\ UNCHANGED <<mounted, isLoading, freshIds>>

\* An updateState whose successful write clears the error.
updateStateLocal_ClearsError(updates, sets) ==
    /\ mounted
    /\ LET newState == Spread(hookState, updates)
       IN  /\ hookState' = newState
           /\ stored' = setItem(Stringify(newState), sets)
    /\ error' = IF sets THEN "null" ELSE "set"
    /\ UNCHANGED <<mounted, isLoading, freshIds>>

\* updateState(updates)
updateStateLocal(updates, sets) ==
    /\ mounted
    /\ LET newState == Spread(hookState, updates)
       IN  /\ hookState' = newState
           /\ stored' = setItem(Stringify(newState), sets)
    /\ error' = IF sets THEN error ELSE "set"
    /\ UNCHANGED <<mounted, isLoading, freshIds>>

\* resetSession().  sets, setsAgain: whether the setItem of the try block
\* and the one of the catch block work.
resetSessionLocal(sets, setsAgain) ==
    /\ mounted
    /\ freshIds < MaxResets
    /\ freshIds' = freshIds + 1
    /\ LET newState == [defaultState EXCEPT !.sessionId = LocalId(freshIds')]
       IN  IF sets
           THEN /\ hookState' = newState
                /\ stored' = setItem(Stringify(newState), TRUE)
                /\ error' = "null"
           ELSE /\ error' = "set"
                /\ hookState' = defaultState
                /\ stored' = setItem(Stringify(defaultState), setsAgain)
    /\ UNCHANGED <<mounted, isLoading>>

\* ExcelToggle's handleResetClick when window.confirm answers no: it returns
\* before onReset, which is the only caller of resetSession.
handleResetClickDeclined ==
    /\ mounted
    /\ UNCHANGED hookVars

\* The page is loaded again: the hook starts over, localStorage stays.
Reload ==
    /\ mounted
    /\ mounted' = FALSE
    /\ hookState' = defaultState
    /\ isLoading' = TRUE
    /\ error' = "null"
    /\ UNCHANGED <<stored, freshIds>>

InitLocal ==
    /\ remembered = Null /\ sessions = EmptyMap /\ nextId = 1
    /\ Constructed
    /\ \E item \in {NoItem, CorruptItem, Stringify(PriorLocalState)} : Rendered(item)
    /\ GridTabClosed(<<defaultGridData>>)
    /\ SidebarRendered

NextLocal ==
    /\ UNCHANGED <<serverVars, clientVars, net, gridVars, sidebarVars, burst, reboots, cleanedUp>>
    /\ \/ \E gets, sets \in BOOLEAN :
             /\ initializeSession(gets, sets)
             /\ Did("initializeSession", Null, "-", EmptyMap)
       \/ \E updates \in LocalPatches : \E sets \in BOOLEAN :
             /\ updateStateLocal(updates, sets)
             /\ Did("updateState", Null, IF sets THEN "local" ELSE "unsaved", updates)
       \/ \E sets, setsAgain \in BOOLEAN :
             /\ resetSessionLocal(sets, setsAgain)
             /\ Did("resetSession", Null, "local", EmptyMap)
       \/ /\ handleResetClickDeclined
          /\ Did("handleResetClick", Null, "declined", EmptyMap)
       \/ /\ Reload
          /\ Did("reload", Null,
                 IF last.op = "updateState" /\ last.out = "local" THEN "written" ELSE "-",
                 hookState)

SpecLocal == InitLocal /\ [][NextLocal]_vars

\* ------------------------------------------- the two client stores' writes
\* The hook, and the SessionManager's updateState called on its own.
NextWrites ==
    \/ NextLocal
    \/ \E newState \in Patches :
          updateState(newState) /\ Wrote(newState) /\ UNCHANGED <<hookVars, gridVars, sidebarVars, cleanedUp>>

SpecWrites == InitLocal /\ [][NextWrites]_vars

\* ------------------------------------------------------ the React grid tab
\* The rows x cols array createGrid and handleFileImport build: the cell of
\* old where it has one, '' elsewhere.
FilledGrid(rows, cols, old) ==
    [i \in 1..rows |->
        [j \in 1..cols |-> IF i <= Len(old) /\ j <= Len(old[i]) THEN old[i][j] ELSE ""]]

\* updateState({ gridData: g }): the hook's one-level merge replaces the key.
updateStateGrid(g) == stateGridData' = <<g>>

\* createGrid(rows, cols) in a render whose gridData is held.
createGrid(rows, cols, held) ==
    LET newGridData == FilledGrid(rows, cols, held)
    IN  /\ gridData' = newGridData
        /\ currentRows' = rows
        /\ currentCols' = cols
        /\ updateStateGrid([data |-> newGridData, rows |-> rows, cols |-> cols])

\* updateGridInSession(newData): rows and cols are the currentRows and
\* currentCols of the render the callback was made in.
updateGridInSession(newData) ==
    updateStateGrid([data |-> newData, rows |-> currentRows, cols |-> currentCols])

\* GridTab is rendered (the grid tab is the active one) and its mount effect
\* runs, in a render whose gridData is [].
GridTabMount ==
    /\ ~gridMounted
    /\ gridMounted' = TRUE
    /\ IF stateGridData # <<>>
       THEN /\ gridData' = stateGridData[1].data
            /\ currentRows' = stateGridData[1].rows
            /\ currentCols' = stateGridData[1].cols
            /\ rowCount' = stateGridData[1].rows
            /\ colCount' = stateGridData[1].cols
            /\ UNCHANGED stateGridData
       ELSE /\ createGrid(3, 3, <<>>)
            /\ UNCHANGED <<rowCount, colCount>>

\* Another tab becomes the active one: GridTab is unmounted, and its next
\* mount starts from the useState initial values.
GridTabUnmount ==
    /\ gridMounted
    /\ gridMounted' = FALSE
    /\ gridData' = <<>>
    /\ currentRows' = 3
    /\ currentCols' = 3
    /\ rowCount' = 3
    /\ colCount' = 3
    /\ UNCHANGED stateGridData

\* parseInt(e.target.value) || 1 of the Rows and Columns inputs.
ParsedCount(value) == IF value = 0 THEN 1 ELSE value

setRowCount(value) ==
    /\ gridMounted
    /\ rowCount' = ParsedCount(value)
    /\ UNCHANGED <<gridMounted, gridData, currentRows, currentCols, colCount, stateGridData>>

setColCount(value) ==
    /\ gridMounted
    /\ colCount' = ParsedCount(value)
    /\ UNCHANGED <<gridMounted, gridData, currentRows, currentCols, rowCount, stateGridData>>

\* handleUpdateGrid()
handleUpdateGrid ==
    /\ gridMounted
    /\ IF rowCount < 1 \/ rowCount > 20 \/ colCount < 1 \/ colCount > 20
       THEN UNCHANGED <<gridData, currentRows, currentCols, stateGridData>>
       ELSE createGrid(rowCount, colCount, gridData)
    /\ UNCHANGED <<gridMounted, rowCount, colCount>>

\* handleCellChange(row, col, value), from the input of a rendered cell.
handleCellChange(row, col, value) ==
    /\ gridMounted
    /\ row \in 1..Len(gridData) /\ col \in 1..Len(gridData[row])
    /\ LET newGridData == [gridData EXCEPT ![row][col] = value]
       IN  /\ gridData' = newGridData
           /\ updateGridInSession(newGridData)
    /\ UNCHANGED <<gridMounted, currentRows, currentCols, rowCount, colCount>>

\* handleClearGrid(); confirmed is what window.confirm returns.
handleClearGrid(confirmed) ==
    /\ gridMounted
    /\ IF confirmed
       THEN LET clearedData == [i \in 1..currentRows |-> [j \in 1..currentCols |-> ""]]
            IN  /\ gridData' = clearedData
                /\ updateGridInSession(clearedData)
       ELSE UNCHANGED <<gridData, stateGridData>>
    /\ UNCHANGED <<gridMounted, currentRows, currentCols, rowCount, colCount>>

\* A file's text is a sequence of characters.
\* content.split('\n')
RECURSIVE SplitLines(_, _)
SplitLines(content, line) ==
    IF content = <<>> THEN <<line>>
    ELSE IF Head(content) = "\n" THEN <<line>> \o SplitLines(Tail(content), <<>>)
    ELSE SplitLines(Tail(content), Append(line, Head(content)))

\* row.trim() is truthy
NotBlank(row) == \E i \in 1..Len(row) : row[i] # " "

\* current.replace(/""/g, '"')
RECURSIVE Unquote(_)
Unquote(chars) ==
    IF Len(chars) < 2 THEN chars
    ELSE IF chars[1] = "\"" /\ chars[2] = "\"" THEN <<"\"">> \o Unquote(Tail(Tail(chars)))
    ELSE <<Head(chars)>> \o Unquote(Tail(chars))

\* The string of a sequence of characters.
RECURSIVE Text(_)
Text(chars) == IF chars = <<>> THEN "" ELSE Head(chars) \o Text(Tail(chars))

\* The "simple CSV parsing" loop of handleFileImport over one row, from
\* character i on.
RECURSIVE ParseRow(_, _, _, _, _)
ParseRow(row, i, current, inQuotes, cells) ==
    IF i > Len(row) THEN Append(cells, Text(Unquote(current)))
    ELSE LET char == row[i]
             atEdge == i = 1 \/ row[i - 1] = ","
             atEnd == i = Len(row) \/ row[i + 1] = ","
         IN  IF char = "\"" /\ atEdge
             THEN ParseRow(row, i + 1, current, TRUE, cells)
             ELSE IF char = "\"" /\ inQuotes /\ atEnd
             THEN ParseRow(row, i + 1, current, FALSE, cells)
             ELSE IF char = "," /\ ~inQuotes
             THEN ParseRow(row, i + 1, <<>>, inQuotes, Append(cells, Text(Unquote(current))))
             ELSE IF ~(char = "\"" /\ (atEdge \/ atEnd))
             THEN ParseRow(row, i + 1, Append(current, char), inQuotes, cells)
             ELSE ParseRow(row, i + 1, current, inQuotes, cells)

\* importedData of a file's text.
ImportedData(content) ==
    LET rows == SelectSeq(SplitLines(content, <<>>), NotBlank)
    IN  [i \in 1..Len(rows) |-> ParseRow(rows[i], 1, <<>>, FALSE, <<>>)]

Min(a, b) == IF a < b THEN a ELSE b
MaxLen(rows) == CHOOSE n \in {Len(rows[i]) : i \in 1..Len(rows)} :
                    \A i \in 1..Len(rows) : Len(rows[i]) <= n

\* handleFileImport with the file's text read: reader.onload.
handleFileImport(content) ==
    /\ gridMounted
    /\ LET importedData == ImportedData(content)
       IN  IF Len(importedData) > 0
           THEN LET newRows == Min(Len(importedData), 20)
                    newCols == Min(MaxLen(importedData), 20)
                    newGridData == FilledGrid(newRows, newCols, importedData)
                IN  /\ rowCount' = newRows
                    /\ colCount' = newCols
                    /\ gridData' = newGridData
                    /\ currentRows' = newRows
                    /\ currentCols' = newCols
                    /\ updateGridInSession(newGridData)
           ELSE UNCHANGED <<gridData, currentRows, currentCols, rowCount, colCount,
                            stateGridData>>
    /\ UNCHANGED gridMounted

\* The values typed into the Rows and Columns inputs.
CountInputs == {-1, 0, 2, 21}

\* The cells edited and the values typed into them.
CellInputs == {<<1, 1>>, <<2, 2>>}
CellValues == {"a"}

\* n copies of the characters in chars, one after the other.
RECURSIVE Repeated(_, _)
Repeated(chars, n) == IF n = 0 THEN <<>> ELSE chars \o Repeated(chars, n - 1)

\* The texts of the files imported: empty, blank lines only, two rows of
\* different lengths, one row with a quoted comma and a doubled quote, 21 rows,
\* and a row of 21 cells.
CsvFiles ==
    {<<>>,
     <<" ", "\n", "\n">>,
     <<"a", ",", "b", "\n", "c", "\n">>,
     <<"\"", "a", ",", "b", "\"", ",", "a", "\"", "\"", "b">>,
     Repeated(<<"a", "\n">>, 21),
     Repeated(<<"a", ",">>, 20) \o <<"a">>}

\* The hook initialised, over no item or over an item saved without a
\* gridData key, and GridTab not yet rendered.
InitGrid ==
    /\ remembered = Null /\ sessions = EmptyMap /\ nextId = 1
    /\ Constructed
    /\ mounted = TRUE /\ isLoading = FALSE /\ error = "null" /\ freshIds = 0
    /\ \/ /\ hookState = defaultState
          /\ GridTabClosed(<<defaultGridData>>)
       \/ /\ hookState = PriorLocalState
          /\ GridTabClosed(<<>>)
    /\ stored = Stringify(hookState)
    /\ SidebarRendered

NextGrid ==
    /\ UNCHANGED <<serverVars, clientVars, net, hookVars, sidebarVars, burst, reboots,
                   cleanedUp>>
    /\ \/ GridTabMount /\ Did("GridTab", Null, "mount", EmptyMap)
       \/ GridTabUnmount /\ Did("GridTab", Null, "unmount", EmptyMap)
       \/ \E value \in CountInputs : setRowCount(value) /\ Did("setRowCount", Null, "-", EmptyMap)
       \/ \E value \in CountInputs : setColCount(value) /\ Did("setColCount", Null, "-", EmptyMap)
       \/ /\ handleUpdateGrid
          /\ Did("handleUpdateGrid", Null,
                 IF stateGridData' = stateGridData /\ gridData' = gridData
                 THEN "same" ELSE "resized", EmptyMap)
       \/ \E cell \in CellInputs : \E value \in CellValues :
             /\ handleCellChange(cell[1], cell[2], value)
             /\ Did("handleCellChange", Null, "-", EmptyMap)
       \/ \E confirmed \in BOOLEAN :
             /\ handleClearGrid(confirmed)
             /\ Did("handleClearGrid", Null, IF confirmed THEN "cleared" ELSE "declined",
                    EmptyMap)
       \/ \E content \in CsvFiles :
             /\ handleFileImport(content)
             /\ Did("handleFileImport", Null,
                    IF Len(ImportedData(content)) > 0 THEN "imported" ELSE "empty", EmptyMap)

SpecGrid == InitGrid /\ [][NextGrid]_vars

\* ------------------------------------------------------- the React sidebar
\* Entries state.uploads may hold before a drop, and files in one drop.
MaxHeld == 3
MaxDrop == 2

\* A File: its name without the extension, the extension ("" when the name has
\* none) and its MIME type.
File(name, ext, type) == [name |-> name, ext |-> ext, type |-> type]

validTypes ==
    {"application/vnd.openxmlformats-officedocument.spreadsheetml.sheet",
     "application/vnd.ms-excel"}

\* file.name.match(/\.(xlsx|xls)$/i)
MatchesExcelName(file) == file.ext \in {"xlsx", "xls", "XLSX", "XLS", "Xlsx", "Xls"}

\* handleFile's test of a file.
AcceptedFile(file) == file.type \in validTypes \/ MatchesExcelName(file)

\* files.forEach(handleFile) in a render whose state.uploads is held: what
\* state.uploads and uploadedFile are after the files, from what they were.
\* Each updateState replaces the uploads key of the state it is applied to.
RECURSIVE ForEachHandleFile(_, _, _)
ForEachHandleFile(files, held, sofar) ==
    IF files = <<>> THEN sofar
    ELSE LET file == Head(files)
         IN  ForEachHandleFile(Tail(files), held,
                 IF AcceptedFile(file)
                 THEN [uploads |-> Append(held, file), uploadedFile |-> <<file>>]
                 ELSE sofar)

\* handleFiles(files), from a drop or from the file input.
handleFiles(files) ==
    /\ Len(stateUploads) < MaxHeld
    /\ LET after == ForEachHandleFile(files, stateUploads,
                        [uploads |-> stateUploads, uploadedFile |-> uploadedFile])
       IN  /\ stateUploads' = after.uploads
           /\ uploadedFile' = after.uploadedFile

\* The hook's resetSession: state.uploads is defaultState's again; the
\* sidebar's own uploadedFile stays.
resetSessionSidebar ==
    /\ stateUploads' = <<>>
    /\ UNCHANGED uploadedFile

\* The files dropped or selected: Excel by type and name, by name only, by
\* type only, and not Excel.
DroppedFiles ==
    {File("a", "xlsx", "application/vnd.openxmlformats-officedocument.spreadsheetml.sheet"),
     File("b", "XLS", ""),
     File("c", "", "application/vnd.ms-excel"),
     File("d", "pdf", "application/pdf")}

\* One drop or selection: one to MaxDrop files.
Drops == UNION {[1..n -> DroppedFiles] : n \in 1..MaxDrop}

\* The hook initialised over no item, the sidebar rendered.
InitSidebar ==
    /\ remembered = Null /\ sessions = EmptyMap /\ nextId = 1
    /\ Constructed
    /\ mounted = TRUE /\ isLoading = FALSE /\ error = "null" /\ freshIds = 0
    /\ hookState = defaultState
    /\ stored = Stringify(hookState)
    /\ GridTabClosed(<<defaultGridData>>)
    /\ SidebarRendered

NextSidebar ==
    /\ UNCHANGED <<serverVars, clientVars, net, hookVars, gridVars, burst, reboots, cleanedUp>>
    /\ \/ \E files \in Drops : handleFiles(files) /\ Did("handleFiles", Null, "-", files)
       \/ resetSessionSidebar /\ Did("resetSession", Null, "local", EmptyMap)

SpecSidebar == InitSidebar /\ [][NextSidebar]_vars

\* --------------------------------------------------------- the page unload
\* Steps the user or the browser's load event starts.
UserOps == {"init", "updateState", "resetSession", "resetUserSession"}

\* The remote variant with beforeunload: once cleanup() has run the user does
\* nothing more; calls in flight are still served and settle, and timers that
\* are set still fire.
NextUnload ==
    \/ /\ RemoteNext
       /\ cleanedUp => last'.op \notin UserOps
       /\ UNCHANGED <<hookVars, gridVars, sidebarVars, cleanedUp>>
    \/ /\ cleanup
       /\ cleanedUp' = TRUE
       /\ Did("cleanup", Null, "-", EmptyMap)
       /\ burst' = IF syncTimers' = 0 THEN NoBurst ELSE burst
       /\ UNCHANGED <<reboots, hookVars, gridVars, sidebarVars>>

SpecUnload == Init /\ [][NextUnload]_vars

\* ------------------------------------------------------------------ claims

\* C1, as claimed: every burst of updateState calls on an Active session ends in
\* exactly one push, whose body is the state after the burst's last write.
C1_OnePushOfLastWrite ==
    last.burst.writes > 0 => last.burst.pushes = 1 /\ last.burst.intact

\* C1, amended: a burst ends in at most one push: exactly one when a session id
\* is held as the debounce timer fires, none otherwise; its body is the state
\* after the burst's last write unless a reset or bootstrap response, or a
\* write made while not initialised, has assigned the state since.
C1_AtMostOnePushOfCurrentState ==
    /\ syncTimers <= 1
    /\ burst.writes > 0 <=> syncTimers = 1
    /\ burst.pushes = 0
    /\ last.burst.writes > 0
        => /\ last.burst.pushes = (IF last.burst.held THEN 1 ELSE 0)
           /\ ~last.burst.replaced => last.burst.intact

C1_Witness ==
    /\ last.op = "syncToServer"
    /\ last.burst.writes = 2
    /\ last.burst.pushes = 1
    /\ last.burst.intact
    /\ ~last.burst.replaced
    /\ \E m \in Messages : m.kind = "put" /\ m.phase = "req" /\ m.ui = state

\* C2: the failed validation polls of one session id start at most one
\* re-bootstrap (one init() run, one POST /api/session/init).
C2_OneRebootstrapPerInvalidation ==
    \A id \in Ids : reboots[id] <= 1

\* C3: a PUT state request answered 400 leaves the store as it was: the
\* record's uiState, workspaceData and lastActivity, for every pair of patches.
C3_RejectedPutLeavesRecord ==
    [][(last'.op = "PUT state" /\ resp' = 400) => sessions' = sessions]_vars

\* C4: a response to a call issued while the active session id was X changes
\* neither the local state nor the session id when the active id is no longer X.
C4_StaleResponseDiscarded ==
    [][(last'.op \in SettleOps /\ last'.sid # sessionId)
        => (state' = state /\ sessionId' = sessionId)]_vars

\* C5: resetSession is all-or-nothing: a successful reset replaces the local
\* state by the returned default state, a failed or refused one changes
\* nothing, and neither changes the session id, the remembered id or the
\* lifecycle state.
C5_ResetAllOrNothing ==
    [][(last'.op \in {"reset", "resetSession"})
        => /\ sessionId' = sessionId
           /\ remembered' = remembered
           /\ isInitialized' = isInitialized
           /\ IF last'.op = "reset" /\ last'.out = "ok"
              THEN state' = DefaultUiState
              ELSE state' = state]_vars

C5_Witness ==
    /\ last.op = "reset"
    /\ last.out = "ok"
    /\ last.sid = sessionId
    /\ isInitialized
    /\ state = DefaultUiState

\* C8, as claimed: a validation poll that fails, by an unsuccessful response or
\* by a network failure, stops the interval, discards the remembered id and
\* starts a bootstrap.
C8_AnyPollFailureRebootstraps ==
    [][(last'.op = "poll" /\ last'.out \in {"rejected", "neterr"})
        => /\ intervalHandle' # "live"
           /\ intervals' = 0
           /\ remembered' = Null
           /\ Bootstraps(net') = Bootstraps(net) + 1]_vars

\* C8, amended: an unsuccessful response does all that; a network failure is
\* only logged: the interval, the ids, the lifecycle state and the local state
\* stay as they are and no bootstrap starts.
C8_OnlyRejectedPollRebootstraps ==
    [][(last'.op = "poll")
        => IF last'.out = "rejected"
           THEN /\ intervalHandle' # "live"
                /\ intervals' = 0
                /\ remembered' = Null
                /\ sessionId' = Null
                /\ ~isInitialized'
                /\ Bootstraps(net') = Bootstraps(net) + 1
           ELSE /\ UNCHANGED clientVars
                /\ Bootstraps(net') = Bootstraps(net)]_vars

C8_Witness ==
    /\ last.op = "poll"
    /\ last.out = "rejected"
    /\ remembered = Null
    /\ intervals = 0
    /\ \E m \in Messages : m.kind = "create" /\ m.phase = "req"

\* C9: getState() right after updateState(p) has p's value at every key of p,
\* in every lifecycle state and whatever calls are in flight.
C9_ReadSeesWrite ==
    last.op = "updateState"
        => \A k \in DOMAIN last.arg : k \in DOMAIN getState /\ getState[k] = last.arg[k]

C9_Witness ==
    /\ last.op = "updateState"
    /\ last.out = "inactive"
    /\ net # EmptyBag
    /\ last.arg = [sidebarCollapsed |-> "true"]
    /\ getState["sidebarCollapsed"] = "true"

\* C10, as claimed: every updateState call schedules a debounced push, in every
\* lifecycle state.
C10_EveryWriteSchedulesPush ==
    last.op = "updateState" => syncTimers >= 1 /\ syncHandle = "live"

\* C10, amended: an updateState call made while initialised (re)schedules the
\* one debounce timer, whose firing sends the then-current full state; a call
\* made before initialisation has completed or during a re-bootstrap only
\* merges the local state: it schedules nothing and sends nothing.
C10_ActiveWriteSchedulesPush ==
    [][/\ last'.op = "updateState"
          => IF isInitialized
             THEN syncTimers' = 1 /\ syncHandle' = "live"
             ELSE UNCHANGED <<syncTimers, syncHandle, net>>
       /\ (last'.op = "syncToServer" /\ last'.out = "sent")
          => net' = Send(Request("put", sessionId, sessionId, state'))]_vars

C10_Witness ==
    /\ last.op = "updateState"
    /\ last.out = "active"
    /\ syncTimers = 1
    /\ syncHandle = "live"

\* ---------------------------------------------------------------- liveness
\* The remote variant on a network that delivers: every call is answered by the
\* server and settles with that answer.  The history of the run is not kept.
Answered(m) == IF m.phase = "resp" THEN {Answer(m)} ELSE {}

TimerFires == PollTick

\* A call of kind k is served, or settles with the server's answer.
Delivery(k) ==
    \E m \in Messages :
        /\ m.kind = k
        /\ \/ ServerHandles(m) /\ UNCHANGED reboots
           \/ \E out \in Answered(m) :
                 /\ \/ CreateSettles(m, out)
                    \/ ResumeSettles(m, out)
                    \/ PollSettles(m, out)
                    \/ PutSettles(m, out)
                    \/ ResetSettles(m, out)
                 /\ Rebooted(m)

NextLive ==
    /\ UNCHANGED <<last, burst, hookVars, gridVars, sidebarVars, cleanedUp>>
    /\ \/ DOMContentLoaded /\ UNCHANGED reboots
       \/ \E newState \in Patches : updateState(newState) /\ UNCHANGED reboots
       \/ syncToServer /\ UNCHANGED reboots
       \/ TimerFires /\ UNCHANGED reboots
       \/ resetSession /\ UNCHANGED reboots
       \/ \E k \in SettleOps : Delivery(k)
       \/ Sweep /\ UNCHANGED <<clientVars, net, reboots>>
       \/ Tick /\ UNCHANGED <<clientVars, net, reboots>>

\* The poll timer keeps firing while it is set, and the calls of each kind keep
\* being served and settled.
Fairness ==
    /\ SF_vars(TimerFires /\ UNCHANGED <<historyVars, hookVars, gridVars, sidebarVars>>)
    /\ \A k \in SettleOps : WF_vars(Delivery(k) /\ UNCHANGED <<last, burst, hookVars, gridVars, sidebarVars, cleanedUp>>)

SpecLive == Init /\ [][NextLive]_vars /\ Fairness

\* The client is Active on session id, whose record the sweep has removed.
Evicted(id) ==
    /\ sessionId = id
    /\ isInitialized
    /\ id \notin DOMAIN sessions

\* The client is Active on a session other than id, which the server holds and
\* the browser remembers, with the default state.
Renewed(id) ==
    /\ sessionId \notin {Null, id}
    /\ sessionId \in DOMAIN sessions
    /\ remembered = sessionId
    /\ isInitialized
    /\ state = DefaultUiState

\* C6: in the local-only variant, resetSession leaves the in-memory state and
\* the stored item either both at the new default state or both as they were
\* before the call, whether the storage writes work or not.
IsDefaultState(o) == o = [defaultState EXCEPT !.sessionId = o.sessionId]
C6_LocalResetAllOrNothing ==
    [][(last'.op = "resetSession" /\ last'.out = "local")
        => \/ IsDefaultState(hookState') /\ stored' = Stringify(hookState')
           \/ hookState' = hookState /\ stored' = stored]_vars

\* C7: once the sweep has removed the record of the session the client is
\* Active on, the client eventually is Active on a brand-new session id that it
\* remembers, with the default state.
C7_EvictionLeadsToNewSession ==
    \A id \in Ids : Evicted(id) ~> Renewed(id)

C7_Witness ==
    \E id \in Ids : reboots[id] = 1 /\ id \notin DOMAIN sessions /\ Renewed(id)

\* C11: when the client is Active on a session the server holds, no write is
\* waiting for its debounce timer, and the server processes the push of the
\* current local state with no other call in flight, the record's uiState
\* becomes equal to the local state.
C11_PushedStateReachesServer ==
    [][\A m \in Messages :
          (/\ m.kind = "put" /\ m.phase = "req" /\ m.sid = sessionId /\ m.ui = state
           /\ net = SetToBag({m})
           /\ isInitialized
           /\ syncTimers = 0
           /\ sessionId \in DOMAIN sessions
           /\ last'.op = "server" /\ last'.out = "put")
              => sessions'[sessionId].uiState = state]_vars

\* C12: when the get of the remembered id succeeds, init leaves the client
\* Active on the remembered id, with the fetched record's uiState as its local
\* state, and no create call has been made.
C12_ResumeAdoptsSession ==
    (last.op = "resume" /\ last.out = "ok")
        => /\ isInitialized
           /\ sessionId # Null
           /\ sessionId = remembered
           /\ sessionId \in DOMAIN sessions => state = sessions[sessionId].uiState
           /\ \A m \in Messages : m.kind # "create"
           /\ \A id \in DOMAIN sessions : id = sessionId

C12_Witness ==
    /\ last.op = "resume" /\ last.out = "ok"
    /\ sessionId = 1
    /\ sessionId \in DOMAIN sessions
    /\ state = PriorUiState

\* A create call is on its way to the server.
CreateRequested == \E m \in Messages : m.kind = "create" /\ m.phase = "req"

\* The bootstrap goes to creation: init without a remembered id, and a resume
\* that fails, leave no remembered id and a create call under way; a create
\* that succeeds leaves the client Active on the new id, which it remembers,
\* with local state s.
BootstrapByCreation(s) ==
    /\ (last.op = "init" /\ remembered = Null) => CreateRequested
    /\ (last.op = "resume" /\ last.out # "ok") => remembered = Null /\ CreateRequested
    /\ (last.op = "create" /\ last.out = "ok")
        => /\ sessionId # Null
           /\ sessionId < nextId
           /\ remembered = sessionId
           /\ isInitialized
           /\ state = s

\* C13, as claimed: bootstrap by creation ends Active on the new id with the
\* client's default state (the constructor's) as the local state.
C13_CreationAdoptsDefaultState == BootstrapByCreation(ConstructorState)

\* C13, amended: bootstrap by creation ends Active on the new id with the
\* created record's default uiState as the whole local state.
C13_CreationAdoptsServerDefaults == BootstrapByCreation(DefaultUiState)

C13_Witness ==
    /\ last.op = "create" /\ last.out = "ok"
    /\ sessionId = 2 /\ remembered = 2 /\ isInitialized
    /\ state = DefaultUiState
    /\ 1 \notin DOMAIN sessions

\* C14: when creation fails, the client is left not initialised, without an
\* active session id and without a running validation interval, and no
\* bootstrap call (get of a remembered id, create) is under way.
C14_FailedCreationLeavesFailed ==
    (last.op = "create" /\ last.out # "ok")
        => /\ ~isInitialized
           /\ sessionId = Null
           /\ intervals = 0
           /\ \A m \in Messages : m.kind \notin {"create", "resume"}

\* C15: a get, updateState, reset or upload with a malformed session id is
\* answered 400 and changes no record, and one with a well-formed id the store
\* does not hold is answered 404.
C15_MalformedIdRejected ==
    [][last'.op \in IdRoutes
        => /\ ~validateSessionId(last'.sid) => resp' = 400 /\ sessions' = sessions
           /\ (validateSessionId(last'.sid) /\ last'.sid \notin DOMAIN sessions)
                => resp' = 404 /\ sessions' = sessions]_vars

\* C16: a PUT state request to a session the store holds whose uiState patch
\* has an activeTab outside {grid, table, pq-query} is answered 400 and leaves
\* the record's uiState as it was.
C16_UnknownTabRejected ==
    [][\A id \in Ids : \A uiState \in ShapedUiBodies : \A workspaceData \in WorkspaceBodies :
          (/\ id \in DOMAIN sessions
           /\ "activeTab" \in DOMAIN uiState.f
           /\ uiState.f["activeTab"] \notin ActiveTabs
           /\ ApiPut(id, uiState, workspaceData))
             => /\ resp' = 400
                /\ sessions'[id].uiState = sessions[id].uiState]_vars

\* C17: a PUT state request to a session the store holds is answered 400 when
\* its uiState patch has a key outside the known uiState keys, and then leaves
\* the record's uiState as it was; it is answered 400 when its workspaceData
\* patch has a value that is not an array, and then leaves the record's
\* workspaceData as it was.
C17_MisshapenPatchRejected ==
    [][\A id \in Ids : \A uiState \in ShapedUiBodies : \A workspaceData \in WorkspaceBodies :
          (id \in DOMAIN sessions /\ ApiPut(id, uiState, workspaceData))
             => /\ (\E key \in DOMAIN uiState.f : key \notin DOMAIN ConstructorState)
                     => /\ resp' = 400
                        /\ sessions'[id].uiState = sessions[id].uiState
                /\ (\E key \in DOMAIN workspaceData.f : ~IsArray(workspaceData.f[key]))
                     => /\ resp' = 400
                        /\ sessions'[id].workspaceData = sessions[id].workspaceData]_vars

\* The store issued the id and no longer holds it: cleanupSessions deleted the
\* record.
Removed(id) == id \in 1..(nextId - 1) /\ id \notin DOMAIN sessions

\* What a request addressed to a removed id is answered, given the answers
\* allowed to an upload whose file multer refuses.
RemovedStaysRemoved(oversized, othertype) ==
    \A id \in Ids :
          Removed(id)
            => /\ id \notin DOMAIN sessions'
               /\ last'.op = "POST init" => last'.sid # id
               /\ (last'.op \in IdRoutes /\ last'.sid = id)
                    => resp' = IF last'.op = "POST upload" /\ last'.out = "oversized" THEN oversized
                               ELSE IF last'.op = "POST upload" /\ last'.out = "othertype" THEN othertype
                               ELSE 404

Expired(id) == id \in DOMAIN sessions /\ now - sessions[id].lastActivity > MaxAge

\* C19: a GET, PUT state or DELETE reset addressed to a session that is
\* expired (now - lastActivity > maxAge), and an upload of an acceptable file
\* to it, is answered 404.
C19_ExpiredIsNotFound ==
    [][\A id \in Ids :
          (/\ Expired(id)
           /\ last'.op \in IdRoutes /\ last'.sid = id
           /\ last'.op = "POST upload" => last'.out = "sheet")
             => resp' = 404]_vars

\* C20: a GET that follows a successful DELETE reset of the same session
\* returns the record with the sessionId and createdAt it had before the reset,
\* the default uiState and workspaceData, and a lastActivity strictly greater
\* than the one it had before the reset.
C20_ResetThenGet ==
    [][\A id \in Ids :
          (/\ last.op = "DELETE reset" /\ last.sid = id /\ resp = 200
           /\ last'.op = "GET" /\ last'.sid = id)
             => /\ resp' = 200
                /\ sessions'[id].sessionId = id
                /\ sessions'[id].createdAt = last.arg.createdAt
                /\ sessions'[id].uiState = DefaultUiState
                /\ sessions'[id].workspaceData = DefaultWorkspaceData
                /\ sessions'[id].lastActivity > last.arg.lastActivity]_vars

\* C21: a PUT state, DELETE reset or POST upload addressed to one session id
\* leaves the record of every other session id exactly as it was, so a later
\* GET of the other session returns nothing of the first one's patch.
C21_SessionsIsolated ==
    [][\A A \in RequestIds : \A B \in DOMAIN sessions :
          (/\ A # B
           /\ last'.op \in {"PUT state", "DELETE reset", "POST upload"}
           /\ last'.sid = A)
             => B \in DOMAIN sessions' /\ sessions'[B] = sessions[B]]_vars

C21_Witness ==
    /\ last.op = "PUT state" /\ last.sid = 1 /\ resp = 200
    /\ 2 \in DOMAIN sessions
    /\ sessions[1].uiState.activeTab = "table"
    /\ sessions[2].uiState = DefaultUiState
    /\ sessions[1].workspaceData.gridData = <<"row">>
    /\ sessions[2].workspaceData.uploads = <<"sheet">>

\* C22: a run of cleanupSessions removes exactly the records with
\* now - lastActivity > maxAge, keeps a record idle for exactly maxAge, and
\* leaves every record it keeps as it was; it is one step, so no request sees
\* the store half swept.
C22_SweepRemovesExactlyExpired ==
    [][last'.op = "sweep"
         => /\ DOMAIN sessions' = {id \in DOMAIN sessions : ~Expired(id)}
            /\ \A id \in DOMAIN sessions' : sessions'[id] = sessions[id]
            /\ now' = now /\ nextId' = nextId]_vars

C22_Witness ==
    /\ last.op = "sweep"
    /\ Removed(1)
    /\ 2 \in DOMAIN sessions
    /\ now - sessions[2].lastActivity = MaxAge

\* C23: in every state of the store each key is the sessionId of the record
\* it maps to, so no two records share a session id, and every record has
\* lastActivity >= createdAt.
C23_StoreInvariant ==
    \A id \in DOMAIN sessions :
        /\ sessions[id].sessionId = id
        /\ sessions[id].lastActivity >= sessions[id].createdAt

C23_Witness ==
    /\ DOMAIN sessions = {1, 2}
    /\ sessions[1].lastActivity > sessions[1].createdAt
    /\ sessions[2].createdAt > 0
    /\ sessions[2].lastActivity = sessions[2].createdAt

\* C24: every GET, PUT state, DELETE reset and POST upload answered 200 sets
\* the addressed record's lastActivity to the time of the request, whatever
\* the body of the PUT, and no step lowers a record's lastActivity.
C24_SuccessTouchesLastActivity ==
    [][/\ \A id \in Ids :
             (last'.op \in IdRoutes /\ last'.sid = id /\ resp' = 200)
                => sessions'[id].lastActivity = now
       /\ \A id \in (DOMAIN sessions) \cap (DOMAIN sessions') :
             sessions'[id].lastActivity >= sessions[id].lastActivity]_vars

\* The keys of a record's field old that the patch does not carry keep their
\* values in new, and new has no key beyond old's and the patch's.
MergedShallowly(old, patch, new) ==
    /\ DOMAIN new = (DOMAIN old) \cup (DOMAIN patch)
    /\ \A key \in (DOMAIN old) \ (DOMAIN patch) : new[key] = old[key]

\* C25: no step changes the sessionId or createdAt of a record the store
\* keeps, and a PUT state answered 200 changes only the keys its patches
\* carry: other uiState and workspaceData keys keep their values, and a field
\* for which no patch is supplied is left as it was.
C25_OnlyPatchedKeysChange ==
    [][/\ \A id \in (DOMAIN sessions) \cap (DOMAIN sessions') :
             /\ sessions'[id].sessionId = sessions[id].sessionId
             /\ sessions'[id].createdAt = sessions[id].createdAt
       /\ (last'.op = "PUT state" /\ resp' = 200)
             => \A uiState \in UiBodies : \A workspaceData \in WorkspaceBodies :
                   LET id == last'.sid
                   IN  ApiPut(id, uiState, workspaceData)
                         => /\ MergedShallowly(sessions[id].uiState, uiState.f,
                                               sessions'[id].uiState)
                            /\ MergedShallowly(sessions[id].workspaceData, workspaceData.f,
                                               sessions'[id].workspaceData)]_vars

C25_Witness ==
    /\ last.op = "PUT state" /\ last.sid = 1 /\ resp = 200
    /\ 1 \in DOMAIN sessions
    /\ sessions[1].uiState = [activeTab |-> "table", excelToggle |-> "false"]
    /\ sessions[1].workspaceData.gridData = <<"row">>
    /\ sessions[1].workspaceData.uploads = <<"sheet">>
    /\ sessions[1].createdAt < sessions[1].lastActivity

\* A push that settles without success (a network error or an unsuccessful
\* response) changes nothing of the client but the call it ends.
FailedPushSwallowed ==
    (last'.op = "put" /\ last'.out # "ok")
        => UNCHANGED <<started, sessionId, remembered, isInitialized, state,
                       syncHandle, syncTimers, intervalHandle, intervals>>

\* C26, as claimed: a failed push leaves the client's local state, session id
\* and lifecycle state unchanged, and the write that follows it schedules a
\* push of the then-current full state.
C26_FailedPushThenWritePushes ==
    [][/\ FailedPushSwallowed
       /\ (last.op = "put" /\ last.out # "ok" /\ last'.op = "updateState")
             => /\ state' = Spread(state, last'.arg)
                /\ syncTimers' = 1 /\ syncHandle' = "live"
       /\ (last'.op = "syncToServer" /\ last'.out = "sent")
             => net' = Send(Request("put", sessionId, sessionId, state'))]_vars

\* C26, amended: the same, where the write that follows schedules the push
\* only if the client is initialised; during a re-bootstrap it only merges
\* the local state.
C26_FailedPushThenActiveWritePushes ==
    [][/\ FailedPushSwallowed
       /\ (last.op = "put" /\ last.out # "ok" /\ last'.op = "updateState")
             => /\ state' = Spread(state, last'.arg)
                /\ IF isInitialized
                   THEN syncTimers' = 1 /\ syncHandle' = "live"
                   ELSE UNCHANGED <<syncTimers, syncHandle, net>>
       /\ (last'.op = "syncToServer" /\ last'.out = "sent")
             => net' = Send(Request("put", sessionId, sessionId, state'))]_vars

C26_Witness ==
    /\ last.op = "put" /\ last.out = "rejected"
    /\ isInitialized /\ sessionId # Null
    /\ sessionId \notin DOMAIN sessions
    /\ state = [ConstructorState EXCEPT !.sidebarCollapsed = "true"]

\* C27: in the local-only variant, when updateState returns and storage has
\* accepted its write, the item stored under the key deserialises to the
\* merged in-memory state.
C27_LocalWriteIsDurable ==
    [][(last'.op = "updateState" /\ last'.out = "local")
         => /\ hookState' = Spread(hookState, last'.arg)
            /\ Parses(stored') /\ Parse(stored') = hookState']_vars

\* C28: in the local-only variant, when storage rejects the write of an
\* updateState, the in-memory state is the merged state, error is not null,
\* and the stored item is the one that was there before the call.
C28_RejectedWriteKeepsRecord ==
    [][(last'.op = "updateState" /\ last'.out = "unsaved")
         => /\ hookState' = Spread(hookState, last'.arg)
            /\ error' # "null"
            /\ stored' = stored]_vars

C28_Witness ==
    /\ last.op = "updateState" /\ last.out = "unsaved"
    /\ last.arg = [activeTab |-> "table"]
    /\ hookState = [defaultState EXCEPT !.activeTab = "table", !.sidebarCollapsed = "true"]
    /\ stored = Stringify([defaultState EXCEPT !.sidebarCollapsed = "true"])
    /\ error = "set"

\* C29: in the local-only variant, a page load that follows a successful
\* updateState and reads the stored item without error yields the state that
\* write left in memory, sessionId included.
C29_ReloadYieldsLastWrite ==
    [][(/\ last.op = "reload" /\ last.out = "written"
        /\ last'.op = "initializeSession"
        /\ error' = "null")
          => hookState' = last.arg]_vars

\* App renders its error screen in place of the application once loading has
\* ended with an error.
ErrorScreen == ~isLoading /\ error # "null"

\* C30: in the local-only variant, an initialisation that finds no item under
\* the key, or an item that is not JSON, while storage works, ends with the
\* default state in memory and in storage, isLoading false and no error
\* screen.
C30_MissingOrCorruptFallsBack ==
    [][(/\ stored.kind \in {"none", "corrupt"}
        /\ last'.op = "initializeSession"
        /\ initializeSession(TRUE, TRUE))
          => /\ hookState' = defaultState
             /\ stored' = Stringify(defaultState)
             /\ ~isLoading'
             /\ ~ErrorScreen']_vars

\* C31: in the local-only variant, every resetSession leaves the in-memory
\* state equal to the defaults under a sessionId that differs from the one
\* held before the call, whether the storage write works or not.
C31_LocalResetRekeys ==
    [][(last'.op = "resetSession" /\ last'.out = "local")
         => /\ IsDefaultState(hookState')
            /\ hookState'.sessionId # hookState.sessionId]_vars

\* new is old with patch merged one level deep: every key of patch holds
\* patch's value, every other key of old holds its old value.
MergedOneLevel(old, patch, new) ==
    /\ DOMAIN new = (DOMAIN old) \cup (DOMAIN patch)
    /\ \A key \in DOMAIN patch : new[key] = patch[key]
    /\ \A key \in (DOMAIN old) \ (DOMAIN patch) : new[key] = old[key]

\* C32: after updateState(p), in the SessionManager and in the hook, every
\* top-level key of p holds exactly p's value and every other key holds the
\* value it had before.
C32_WriteMergesOneLevel ==
    [][last'.op = "updateState"
         => IF last'.out \in {"local", "unsaved"}
            THEN MergedOneLevel(hookState, last'.arg, hookState') /\ state' = state
            ELSE MergedOneLevel(state, last'.arg, state') /\ hookState' = hookState]_vars

C32_Witness ==
    /\ last.op = "updateState" /\ last.arg = [activeTab |-> "table"]
    /\ state = [ConstructorState EXCEPT !.activeTab = "table", !.sidebarCollapsed = "true"]
    /\ hookState = [PriorLocalState EXCEPT !.activeTab = "grid", !.uploads = "[File]"]

\* C33: when the user declines the confirmation prompt, in either variant,
\* resetSession is not called: no reset request is sent and the local state,
\* the stored item, the server's records and the session id stay as they are.
C33_DeclinedResetChangesNothing ==
    [][(last'.out = "declined" /\ last'.op \in {"resetUserSession", "handleResetClick"})
         => UNCHANGED <<serverVars, clientVars, net, hookVars>>]_vars

C33_Witness ==
    /\ last.op = "resetUserSession" /\ last.out = "declined"
    /\ isInitialized /\ sessionId = 1
    /\ state = PriorUiState
    /\ sessions[1].uiState = PriorUiState
    /\ net = EmptyBag

\* C34: a POST upload to a session the store holds is answered 413 for a file
\* over the size limit and 400 for no file or a refused file type; one with an
\* acceptable file to a well-formed id the store does not hold is answered
\* 404; a rejected upload changes no record, and an accepted one appends one
\* entry to the end of that session's uploads.
C34_UploadRejectionsClassified ==
    [][\A id \in Ids :
          (last'.op = "POST upload" /\ last'.sid = id)
             => /\ (id \in DOMAIN sessions /\ last'.out = "oversized") => resp' = 413
                /\ (id \in DOMAIN sessions /\ last'.out \in {"none", "othertype"}) => resp' = 400
                /\ (id \notin DOMAIN sessions /\ last'.out = "sheet") => resp' = 404
                /\ resp' # 200 => sessions' = sessions
                /\ resp' = 200
                     => /\ last'.out = "sheet"
                        /\ sessions'[id].workspaceData.uploads
                             = Append(sessions[id].workspaceData.uploads, last'.out)]_vars

\* C35: at every moment at most one validation interval of the SessionManager
\* is active, also when re-bootstraps overlap.
C35_AtMostOneInterval ==
    /\ intervals <= 1
    /\ intervals = 1 => intervalHandle = "live"

C35_Witness ==
    /\ last.op = "create" /\ last.out = "ok"
    /\ intervals = 1
    /\ \E id \in Ids : reboots[id] = 2

\* C36: whenever the SessionManager is initialised it holds a session id, and
\* that id is the one remembered in sessionStorage.
C36_InitialisedHoldsRememberedId ==
    isInitialized => sessionId # Null /\ sessionId = remembered

C36_Witness ==
    /\ isInitialized
    /\ sessionId = remembered /\ sessionId > 1
    /\ \E id \in Ids : reboots[id] = 2
    /\ \E m \in Messages : m.kind = "create"

\* The calls of kind k in a bag of calls, at the server or on their way back.
Calls(b, k) ==
    BagCardinality([m \in {x \in BagToSet(b) : x.kind = k} |-> b[m]])

C38_ErrorSticks ==
    [][error # "null" =>
          /\ ErrorScreen
          /\ last'.op = "updateState" => error' # "null"
          /\ error' = "null" => last'.op \in {"resetSession", "initializeSession", "reload"}]_vars

\* The session was read from storage and never reset, so the error is a failed
\* save's; the last updateState saved.
C38_Witness ==
    /\ hookState.sessionId = PriorLocalState.sessionId /\ freshIds = 0
    /\ error = "set"
    /\ last.op = "updateState" /\ last.out = "local"
    /\ stored = Stringify(hookState)

\* A gridData object is self-consistent: rows and cols are the dimensions of
\* data, and both lie between 1 and 20.
SelfConsistent(g) ==
    /\ g.rows = Len(g.data)
    /\ \A i \in 1..Len(g.data) : Len(g.data[i]) = g.cols
    /\ g.rows \in 1..20
    /\ g.cols \in 1..20

\* C39: in the React grid tab, after every sequence of cell edits, resizes,
\* clears and CSV imports the gridData held in session state is
\* self-consistent.
C39_GridDataSelfConsistent ==
    \A i \in 1..Len(stateGridData) : SelfConsistent(stateGridData[i])

\* C40: every accepted file of a drop or selection is added to state.uploads,
\* in order, after the entries held before, and rejected files add nothing.
C40_EveryAcceptedFileAdded ==
    [][last'.op = "handleFiles" =>
          stateUploads' = stateUploads \o SelectSeq(last'.arg, AcceptedFile)]_vars

====
